---- MODULE Spec2Model ----
(***************************************************************************)
(* Model of futaba's journal Router (src/futaba/journal/router.py): the    *)
(* listener registry, the event queue and the single dispatch task         *)
(* Router.handle_events, together with the handler tasks that              *)
(* asyncio.gather runs for one event.                                      *)
(*                                                                         *)
(* Scheduling is asyncio's: one thread, tasks switch only at an await.     *)
(* handle_events has two awaits, queue.get() and gather; all the  *)
(* code between them runs without suspension and is one action here.       *)
(***************************************************************************)
EXTENDS Integers, Sequences, FiniteSets, TLC

\* ---------------------------------------------------------------- bounds
MaxEvents == 2      \* number of events the producers send
MaxRegs   == 2      \* number of listener references held by the registry
MaxCmds   == 2      \* number of settings commands invoked
MaxHooks  == 2      \* number of hook references held by the hook registry

\* ------------------------------------------------------------- universes
Root == << >>
PathA == <<"a">>
PathAB == <<"a", "b">>
PathC == <<"c">>

\* every path that is a registry key or an event path
AllPaths == {Root, PathA, PathAB, PathC}

\* an attribute mapping is the set of its <<key, value>> items
NoAttrs == {}
High == {<<"severity", "high">>}
Low == {<<"severity", "low">>}
HighBot == {<<"severity", "high">>, <<"source", "bot">>}

\* the <<path, attributes>> of the events the producers send
EventKinds == {<<PathAB, HighBot>>, <<PathA, Low>>, <<PathC, NoAttrs>>}

Listeners == {"l1", "l2", "l3", "l4"}
NoListener == "-"

\* Listener.path: fixed at creation
LPath(l) ==
    CASE l = "l1" -> Root
      [] l = "l2" -> PathA
      [] l = "l3" -> PathAB
      [] l = "l4" -> PathA

\* Listener.predicate: fixed at creation
LPred(l) ==
    CASE l = "l1" -> High
      [] l = "l2" -> High
      [] l = "l3" -> NoAttrs
      [] l = "l4" -> NoAttrs

Subject == "guild"

\* content as the producer wrote it: a text on which no substitution has run
RawContent == [text |-> "raw", applied |-> << >>]

\* static attributes of the listener objects, as hasattr and getattr see them
LStatic(l) ==
    CASE l = "l1" -> {<<"channel", "audit">>}
      [] l = "l2" -> {<<"channel", "audit">>}
      [] l = "l3" -> {<<"channel", "mod">>}
      [] l = "l4" -> {<<"channel", "mod">>, <<"colour", "red">>}

\* the keyword arguments callers pass to get
GetAttrs == {{}, {<<"channel", "audit">>}, {<<"channel", "mod">>},
             {<<"colour", "red">>}, {<<"channel", "mod">>, <<"colour", "blue">>}}

\* the settings cog: roles of the guild, the four special purposes, and the
\* arguments of the commands.  A prefix is the sequence of its characters;
\* None is the empty sequence (a command gets no empty string as argument).
NoRole == "None"
Everyone == "@everyone"
GuildRoles == {Everyone, "r1", "r2"}
RoleNames == GuildRoles \cup {"ghost"}
NoName == "-"
Purposes == {"member", "guest", "mute", "jail"}
NoPrefix == << >>
PrefixArgs == {NoPrefix, <<"_">>, <<"!">>, <<"f", "_">>}

\* the sql hooks
HOOK_NAMES == {"on_guild_join", "on_guild_leave"}
HookNameArgs == HOOK_NAMES \cup {"on_message"}
HookFns == {"h1", "h2"}

\* --------------------------------------------------------------- helpers
Contains(s, x) == \E i \in DOMAIN s : s[i] = x

IsPrefix(p, q) == Len(p) <= Len(q) /\ SubSeq(q, 1, Len(p)) = p

\* PurePath.parents: the strictly shorter prefixes, nearest first, root last
Parents(p) == [i \in 1..Len(p) |-> SubSeq(p, 1, Len(p) - i)]

\* chain((event_path,), event_path.parents)
MatchPathsOwnOnly(event_path) == <<event_path>>

MatchPaths(event_path) == <<event_path>> \o Parents(event_path)

\* process_content(content, attributes): substitutes the attributes into the
\* text; every pass over a text changes it, and the result depends on the
\* attributes
Process(content, attributes) ==
    [content EXCEPT !.applied = Append(@, attributes)]

\* Listener.check, default implementation: every key of the predicate is in
\* the event's attributes with an equal value
Check(l, path, guild, content, attributes) ==
    \A item \in LPred(l) : item \in attributes

\* list.remove(x): drops the first occurrence of x
RECURSIVE RemoveFirst(_, _)
RemoveHead(s, x) == Tail(s)

RemoveFirst(s, x) ==
    IF s = << >> THEN << >>
    ELSE IF Head(s) = x THEN Tail(s)
    ELSE <<Head(s)>> \o RemoveFirst(Tail(s), x)

RECURSIVE SumLen(_, _)
SumLen(f, S) ==
    IF S = {} THEN 0
    ELSE LET p == CHOOSE q \in S : TRUE
         IN Len(f[p]) + SumLen(f, S \ {p})

\* ------------------------------------------------------------------ state
VARIABLES
    paths,      \* Router.paths: path -> list of listeners (missing key = [])
    queue,      \* Router.queue: events waiting to be dequeued
    pc,         \* the dispatch task: "init", "waiting", "dispatching", "dead"
    events,     \* handle_events' local list: keys of the collected tasks
    outer,      \* the future returned by asyncio.gather
    tasks,      \* the handler tasks that events or the event loop still hold
    trace,      \* calls made by handle_events in the step just taken
    errlog,     \* ids of the events for which logger.error was called
    sent,       \* number of events sent so far
    lastDeq,    \* id of the event dequeued last
    lastCall    \* what the step just taken was, when it was a registry call
                \* of interest: a register of a listener its bucket did not
                \* hold ("fresh"), the unregister that directly follows
                \* it for the same listener ("undone"), or an unregister that
                \* raised ("ValueError")

\* Router.get
VARIABLES
    lastGet     \* the get call made in the step just taken, and what it returned

\* the settings cog (src/futaba/cogs/settings/core.py), for one guild
VARIABLES
    prefix,     \* the guild's stored command prefix, << >> when unset
    roles,      \* the guild's stored special roles: purpose -> role
    pending,    \* role commands suspended between their transaction and
                \* their journal.send
    cmds,       \* number of commands invoked so far
    lastCmd     \* the command step just taken: its arguments, its outcome
                \* and the calls it made on the store and the journal

\* the sql hooks (src/futaba/sql/hooks.py)
VARIABLES
    hooks,      \* _hooks: hook name -> list of hooks
    run,        \* the run_hooks call under way or finished last
    lastReg     \* outcome of the register_hook call made in the step just taken

routerVars == <<paths, queue, pc, events, outer, tasks, trace, errlog, sent,
                lastDeq, lastCall>>

cogVars == <<prefix, roles, pending, cmds, lastCmd>>

hookVars == <<hooks, run, lastReg>>

vars == <<routerVars, lastGet, cogVars, hookVars>>

NoCall == [what |-> "none", lis |-> NoListener]

NoGet == [called |-> FALSE, path |-> Root, attrs |-> {}, result |-> NoListener]

NoFrame == [purpose |-> "-", role |-> NoRole, stored |-> NoRole]

NoCmd == [kind |-> "none", mod |-> FALSE, inGuild |-> FALSE, purpose |-> "-",
          arg |-> NoPrefix, name |-> NoName, result |-> "-", calls |-> << >>,
          frame |-> NoFrame]

Idle == [status |-> "idle", name |-> "-", idx |-> 0, called |-> << >>,
         logged |-> << >>]

NoReg == [name |-> "-", result |-> "-"]

Init ==
    /\ paths = [p \in AllPaths |-> << >>]
    /\ queue = << >>
    /\ pc = "init"
    /\ events = << >>
    /\ outer = "none"
    /\ tasks = << >>
    /\ trace = << >>
    /\ errlog = << >>
    /\ sent = 0
    /\ lastDeq = 0
    /\ lastCall = NoCall
    /\ lastGet = NoGet
    /\ prefix = NoPrefix
    /\ roles = [p \in Purposes |-> NoRole]
    /\ pending = << >>
    /\ cmds = 0
    /\ lastCmd = NoCmd
    /\ hooks = [name \in HOOK_NAMES |-> << >>]
    /\ run = Idle
    /\ lastReg = NoReg

\* what a Router step leaves alone: the settings cog and the hooks; the
\* record of the last get is of the step just taken only
Aside ==
    /\ lastGet' = NoGet
    /\ UNCHANGED <<cogVars, hookVars>>

\* ------------------------------------------------------------ operations
\* Router.start: creates the one dispatch task
Start ==
    /\ pc = "init"
    /\ pc' = "waiting"
    /\ trace' = << >>
    /\ lastCall' = NoCall
    /\ Aside
    /\ UNCHANGED <<paths, queue, events, outer, tasks, errlog, sent, lastDeq>>

\* send(path, subject, content, attributes): queue.put_nowait of the event
Send(path, attributes) ==
    /\ sent < MaxEvents
    /\ sent' = sent + 1
    /\ queue' = Append(queue, [id |-> sent + 1, path |-> path,
                               guild |-> Subject, content |-> RawContent,
                               attributes |-> attributes])
    /\ trace' = << >>
    /\ lastCall' = NoCall
    /\ Aside
    /\ UNCHANGED <<paths, pc, events, outer, tasks, errlog, lastDeq>>

\* Router.register
RegisterOp(reg, l) == [reg EXCEPT ![LPath(l)] = Append(@, l)]

Register(l) ==
    /\ SumLen(paths, AllPaths) < MaxRegs
    /\ paths' = RegisterOp(paths, l)
    /\ lastCall' = IF Contains(paths[LPath(l)], l) THEN NoCall
                   ELSE [what |-> "fresh", lis |-> l]
    /\ trace' = << >>
    /\ Aside
    /\ UNCHANGED <<queue, pc, events, outer, tasks, errlog, sent, lastDeq>>

\* Router.unregister: list.remove raises ValueError when the listener is absent
UnregisterSilentOp(reg, l) ==
    [reg |-> [reg EXCEPT ![LPath(l)] = RemoveFirst(@, l)], result |-> "ok"]

UnregisterOp(reg, l) ==
    IF Contains(reg[LPath(l)], l)
    THEN [reg |-> [reg EXCEPT ![LPath(l)] = RemoveFirst(@, l)],
          result |-> "ok"]
    ELSE [reg |-> reg, result |-> "ValueError"]

Unregister(l) ==
    LET r == UnregisterOp(paths, l)
    IN /\ paths' = r.reg
       /\ lastCall' = IF r.result = "ValueError"
                      THEN [what |-> "ValueError", lis |-> NoListener]
                      ELSE IF lastCall = [what |-> "fresh", lis |-> l]
                           THEN [what |-> "undone", lis |-> l]
                      ELSE NoCall
       /\ trace' = << >>
       /\ Aside
       /\ UNCHANGED <<queue, pc, events, outer, tasks, errlog, sent, lastDeq>>

\* attrs_match(obj, attrs): every given attribute exists on the object and
\* has the given value
AttrsMatch(l, attrs) ==
    \A item \in attrs :
        /\ \E own \in LStatic(l) : own[1] = item[1]
        /\ item \in LStatic(l)

\* Router.get: the first listener of self.paths[path] that attrs_match
\* accepts, None when the loop ends; paths is a defaultdict, so a path that
\* is no key yet reads as the empty list
GetOpInherited(reg, path, attrs) ==
    LET chain == MatchPaths(path)
        S == {k \in DOMAIN chain :
                 \E i \in DOMAIN reg[chain[k]] :
                     AttrsMatch(reg[chain[k]][i], attrs)}
    IN IF S = {} THEN [reg |-> reg, result |-> NoListener]
       ELSE LET b == reg[chain[CHOOSE k \in S : \A j \in S : k <= j]]
                T == {i \in DOMAIN b : AttrsMatch(b[i], attrs)}
            IN [reg |-> reg, result |-> b[CHOOSE i \in T : \A j \in T : i <= j]]

GetOp(reg, path, attrs) ==
    LET bucket == reg[path]
        S == {i \in DOMAIN bucket : AttrsMatch(bucket[i], attrs)}
    IN IF S = {} THEN [reg |-> reg, result |-> NoListener]
       ELSE [reg |-> reg,
             result |-> bucket[CHOOSE i \in S : \A j \in S : i <= j]]

Get(path, attrs) ==
    LET r == GetOp(paths, path, attrs)
    IN /\ paths' = r.reg
       /\ lastGet' = [called |-> TRUE, path |-> path, attrs |-> attrs,
                      result |-> r.result]
       /\ lastCall' = NoCall
       /\ trace' = << >>
       /\ UNCHANGED <<queue, pc, events, outer, tasks, errlog, sent, lastDeq>>
       /\ UNCHANGED <<cogVars, hookVars>>

\* ------------------------------------------------------- the dispatch task
\* one call made by handle_events, as recorded in trace
Call(kind, ev, l, path, content, ok) ==
    [kind |-> kind, ev |-> ev.id, lis |-> l, path |-> path,
     guild |-> ev.guild, content |-> content, attributes |-> ev.attributes,
     ok |-> ok]

\* for listener in self.paths[path]: check, and handle when check is true
RECURSIVE CollectBucketUnchecked(_, _, _, _)
CollectBucketUnchecked(bucket, path, ev, content) ==
    IF bucket = << >> THEN << >>
    ELSE LET l == Head(bucket)
             c == Check(l, path, ev.guild, content, ev.attributes)
         IN <<Call("check", ev, l, path, content, c),
              Call("handle", ev, l, ev.path, content, TRUE)>>
            \o CollectBucketUnchecked(Tail(bucket), path, ev, content)

RECURSIVE CollectBucket(_, _, _, _)
CollectBucket(bucket, path, ev, content) ==
    IF bucket = << >> THEN << >>
    ELSE LET l == Head(bucket)
             c == Check(l, path, ev.guild, content, ev.attributes)
         IN <<Call("check", ev, l, path, content, c)>>
            \o (IF c THEN <<Call("handle", ev, l, ev.path, content, TRUE)>>
                     ELSE << >>)
            \o CollectBucket(Tail(bucket), path, ev, content)

\* for path in chain((event_path,), event_path.parents)
RECURSIVE CollectPathsAncestorsFirst(_, _, _, _)
CollectPathsAncestorsFirst(ps, reg, ev, content) ==
    IF ps = << >> THEN << >>
    ELSE CollectPathsAncestorsFirst(Tail(ps), reg, ev, content)
         \o CollectBucket(reg[Head(ps)], Head(ps), ev, content)

RECURSIVE CollectPaths(_, _, _, _)
CollectPaths(ps, reg, ev, content) ==
    IF ps = << >> THEN << >>
    ELSE CollectBucket(reg[Head(ps)], Head(ps), ev, content)
         \o CollectPaths(Tail(ps), reg, ev, content)

\* lines 72-81: transform the content once, then test the listeners
FanOutReprocess(reg, ev) ==
    <<Call("process", ev, NoListener, ev.path, ev.content, TRUE)>>
    \o CollectPaths(MatchPaths(ev.path), reg, ev,
                    Process(Process(ev.content, ev.attributes), ev.attributes))

FanOut(reg, ev) ==
    <<Call("process", ev, NoListener, ev.path, ev.content, TRUE)>>
    \o CollectPaths(MatchPaths(ev.path), reg, ev,
                    Process(ev.content, ev.attributes))

IsHandle(c) == c.kind = "handle"

\* the coroutines appended to the local list events, as tasks of gather;
\* k is the position of the coroutine in events.  gather schedules the first
\* step of each task ahead of anything that becomes ready later, so a task
\* counts as running from here on.
NewTasksFirstOnly(calls) ==
    LET hs == SelectSeq(calls, IsHandle)
    IN [k \in 1..(IF hs = << >> THEN 0 ELSE 1) |->
           [ev |-> hs[k].ev, k |-> k, status |-> "running"]]

NewTasks(calls) ==
    LET hs == SelectSeq(calls, IsHandle)
    IN [k \in 1..Len(hs) |-> [ev |-> hs[k].ev, k |-> k, status |-> "running"]]

Key(t) == [ev |-> t.ev, k |-> t.k]

\* queue.get() returns an event; process_content returns; the listeners are
\* tested and their handlers collected; gather starts waiting for them.
\* gather of an empty list is already done, so the loop does not suspend.
Dequeue ==
    /\ pc = "waiting"
    /\ queue # << >>
    /\ LET ev == Head(queue)
           calls == FanOut(paths, ev)
           new == NewTasks(calls)
       IN /\ queue' = Tail(queue)
          /\ lastDeq' = ev.id
          /\ trace' = calls
          /\ tasks' = tasks \o new
          /\ IF new = << >>
             THEN /\ pc' = "waiting"
                  /\ events' = << >>
                  /\ outer' = "none"
             ELSE /\ pc' = "dispatching"
                  /\ events' = events \o [k \in 1..Len(new) |-> Key(new[k])]
                  /\ outer' = "pending"
    /\ lastCall' = NoCall
    /\ Aside
    /\ UNCHANGED <<paths, errlog, sent>>

\* queue.get() returns an event and process_content raises: line 72 is
\* outside the try of lines 84-87, so the exception ends handle_events
DequeueProcessRaises ==
    /\ pc = "waiting"
    /\ queue # << >>
    /\ LET ev == Head(queue)
       IN /\ queue' = Tail(queue)
          /\ lastDeq' = ev.id
          /\ trace' = <<Call("process", ev, NoListener, ev.path, ev.content,
                             FALSE)>>
    /\ pc' = "dead"
    /\ lastCall' = NoCall
    /\ Aside
    /\ UNCHANGED <<paths, events, outer, tasks, errlog, sent>>

Finished(t) == t.status \in {"done", "raised"}

Held(t) == Contains(events, Key(t))

\* gather's _done_callback for the child at index i (return_exceptions is
\* False): the first child exception completes the outer future at once and
\* the other children keep running; otherwise the outer future completes
\* with the last child
GatherDone(ts, evs, out, i) ==
    IF ~Contains(evs, Key(ts[i])) \/ out # "pending"
    THEN [outer |-> out, tasks |-> ts]
    ELSE IF ts[i].status = "raised"
         THEN [outer |-> "exception", tasks |-> ts]
    ELSE IF \A j \in DOMAIN ts :
                Contains(evs, Key(ts[j])) => ts[j].status = "done"
         THEN [outer |-> "result", tasks |-> ts]
    ELSE [outer |-> out, tasks |-> ts]

\* a finished task that events does not reference is garbage
Live(t) == ~Finished(t) \/ Held(t)

\* a handler task returns (raises = FALSE) or raises (raises = TRUE)
HandlerFinish(i, raises) ==
    /\ i \in DOMAIN tasks
    /\ tasks[i].status = "running"
    /\ LET st == IF raises THEN "raised" ELSE "done"
           g == GatherDone([tasks EXCEPT ![i].status = st], events, outer, i)
       IN /\ tasks' = SelectSeq(g.tasks, Live)
          /\ outer' = g.outer
    /\ trace' = << >>
    /\ lastCall' = NoCall
    /\ Aside
    /\ UNCHANGED <<paths, queue, pc, events, errlog, sent, lastDeq>>

\* lines 84-87: what awaiting the completed gather does to the loop
AwaitGatherNoCatch(out) ==
    IF out = "exception" THEN [pc |-> "dead", logged |-> FALSE]
    ELSE [pc |-> "waiting", logged |-> FALSE]

AwaitGather(out) ==
    IF out = "exception" THEN [pc |-> "waiting", logged |-> TRUE]
    ELSE [pc |-> "waiting", logged |-> FALSE]

Unfinished(t) == ~Finished(t)

\* the dispatch task wakes up from gather: logs the exception if there is
\* one, clears events and goes back to queue.get()
Resume ==
    /\ pc = "dispatching"
    /\ outer \in {"result", "exception"}
    /\ LET r == AwaitGather(outer)
       IN /\ pc' = r.pc
          /\ errlog' = IF r.logged THEN Append(errlog, lastDeq) ELSE errlog
    /\ events' = << >>
    /\ outer' = "none"
    /\ tasks' = SelectSeq(tasks, Unfinished)
    /\ trace' = << >>
    /\ lastCall' = NoCall
    /\ Aside
    /\ UNCHANGED <<paths, queue, sent, lastDeq>>

MaxTasks == MaxEvents * MaxRegs

HandlerStep == \E i \in 1..MaxTasks :
    HandlerFinish(i, FALSE) \/ HandlerFinish(i, TRUE)

LoopStep == Dequeue \/ DequeueProcessRaises \/ Resume

Next ==
    \/ Start
    \/ \E kind \in EventKinds : Send(kind[1], kind[2])
    \/ \E l \in Listeners : Register(l)
    \/ \E l \in Listeners : Unregister(l)
    \/ Dequeue
    \/ DequeueProcessRaises
    \/ \E i \in 1..MaxTasks, raises \in BOOLEAN : HandlerFinish(i, raises)
    \/ Resume

Spec == Init /\ [][Next]_vars

\* the scheduler runs every ready task, and handlers that run terminate
FairSpec ==
    /\ Init /\ [][Next]_vars
    /\ WF_vars(Start)
    /\ WF_vars(LoopStep)
    /\ WF_vars(HandlerStep)

\* the registry on its own: register, unregister and get calls
RegistryNext ==
    \/ \E l \in Listeners : Register(l)
    \/ \E l \in Listeners : Unregister(l)
    \/ \E path \in AllPaths, attrs \in GetAttrs : Get(path, attrs)

RegistrySpec == Init /\ [][RegistryNext]_vars

\* ------------------------------------------------------ the settings cog
\* a call on the settings store or on the journal, as recorded in lastCmd
StoreCall(setting, value) == [op |-> "set", setting |-> setting, value |-> value]

JournalCall(setting, value) ==
    [op |-> "send", setting |-> setting, value |-> value]

\* re.sub(r'_$', ' ', prefix): a trailing underscore becomes a space
TrailingToSpace(p) ==
    IF p # << >> /\ p[Len(p)] = "_" THEN [p EXCEPT ![Len(p)] = " "] ELSE p

\* journal.send('prefix', ..., prefix=bot_prefix, ...) of the set branch
PrefixEventRaw(prefix_arg, bot_prefix) == JournalCall("prefix", prefix_arg)

PrefixEvent(prefix_arg, bot_prefix) == JournalCall("prefix", bot_prefix)

\* Settings.prefix up to its closing reply: the branches in the order of the
\* source.  The unset branch is tested before the moderator check.
PrefixOp(stored, mod, inGuild, prefix_arg) ==
    IF prefix_arg = NoPrefix
    THEN [prefix |-> stored, result |-> "SUCCESS", calls |-> << >>]
    ELSE IF ~inGuild
    THEN [prefix |-> stored, result |-> "FAIL", calls |-> << >>]
    ELSE IF prefix_arg = <<"_">>
    THEN [prefix |-> NoPrefix, result |-> "SUCCESS",
          calls |-> <<StoreCall("prefix", NoPrefix),
                      JournalCall("prefix", NoPrefix)>>]
    ELSE IF ~mod
    THEN [prefix |-> stored, result |-> "DENY", calls |-> << >>]
    ELSE LET bot_prefix == TrailingToSpace(prefix_arg)
         IN [prefix |-> bot_prefix, result |-> "SUCCESS",
             calls |-> <<StoreCall("prefix", bot_prefix),
                         PrefixEvent(prefix_arg, bot_prefix)>>]

Prefix(mod, inGuild, prefix_arg) ==
    /\ cmds < MaxCmds
    /\ cmds' = cmds + 1
    /\ LET r == PrefixOp(prefix, mod, inGuild, prefix_arg)
       IN /\ prefix' = r.prefix
          /\ lastCmd' = [NoCmd EXCEPT !.kind = "prefix", !.mod = mod,
                                      !.inGuild = inGuild, !.arg = prefix_arg,
                                      !.result = r.result, !.calls = r.calls]
    /\ UNCHANGED <<roles, pending>>
    /\ UNCHANGED <<routerVars, lastGet, hookVars>>

\* role in special_roles
InSpecial(role, special) == \E p \in Purposes : special[p] = role

\* set_special_roles(guild, purpose=role): stores the one named purpose
SetSpecialRoles(special, purpose, role) == [special EXCEPT ![purpose] = role]

\* get_role_id and discord.utils.get: the guild's role of that name, or None
FindRole(name) == IF name \in GuildRoles THEN name ELSE NoRole

\* Settings.get_role: the role to assign, or None with the reason
GetRoleAnyPurpose(name, special) ==
    LET role == FindRole(name)
    IN IF role = NoRole THEN [role |-> NoRole, result |-> "missing"]
       ELSE IF role = Everyone THEN [role |-> NoRole, result |-> "default"]
       ELSE [role |-> role, result |-> "ok"]

GetRole(name, special) ==
    LET role == FindRole(name)
    IN IF role = NoRole THEN [role |-> NoRole, result |-> "missing"]
       ELSE IF role = Everyone THEN [role |-> NoRole, result |-> "default"]
       ELSE IF InSpecial(role, special)
            THEN [role |-> NoRole, result |-> "taken"]
       ELSE [role |-> role, result |-> "ok"]

\* set_member_role, set_guest_role, set_mute_role and set_jail_role, which
\* differ in the purpose only, invoked by a moderator in the guild: from the
\* start to the await of the reply.  get_role suspends on its failure
\* branches only, so the test and the transaction are one step.
SetRole(purpose, name) ==
    /\ cmds < MaxCmds
    /\ cmds' = cmds + 1
    /\ LET g == IF name = NoName THEN [role |-> NoRole, result |-> "ok"]
                ELSE GetRole(name, roles)
           cmd == [NoCmd EXCEPT !.kind = "role", !.mod = TRUE,
                                !.inGuild = TRUE, !.purpose = purpose,
                                !.name = name, !.result = g.result]
       IN IF g.result # "ok"
          THEN /\ lastCmd' = cmd
               /\ UNCHANGED <<roles, pending>>
          ELSE /\ roles' = SetSpecialRoles(roles, purpose, g.role)
               /\ pending' = Append(pending, [purpose |-> purpose,
                                              role |-> g.role,
                                              stored |-> g.role])
               /\ lastCmd' = [cmd EXCEPT
                                 !.calls = <<StoreCall(purpose, g.role)>>]
    /\ UNCHANGED prefix
    /\ UNCHANGED <<routerVars, lastGet, hookVars>>

Without(s, i) == SubSeq(s, 1, i - 1) \o SubSeq(s, i + 1, Len(s))

\* journal.send('roles/...', ..., role=role)
RoleEvent(frame) == JournalCall(frame.purpose, frame.role)

\* the reply of a role command is through: the command sends its journal
\* event and ends
RoleReply(i) ==
    /\ i \in DOMAIN pending
    /\ pending' = Without(pending, i)
    /\ lastCmd' = [NoCmd EXCEPT !.kind = "reply", !.result = "SUCCESS",
                                !.frame = pending[i],
                                !.calls = <<RoleEvent(pending[i])>>]
    /\ UNCHANGED <<prefix, roles, cmds>>
    /\ UNCHANGED <<routerVars, lastGet, hookVars>>

\* the reply of a role command raises: the command ends without a journal
\* event
RoleReplyFails(i) ==
    /\ i \in DOMAIN pending
    /\ pending' = Without(pending, i)
    /\ lastCmd' = [NoCmd EXCEPT !.kind = "reply", !.result = "raised",
                                !.frame = pending[i]]
    /\ UNCHANGED <<prefix, roles, cmds>>
    /\ UNCHANGED <<routerVars, lastGet, hookVars>>

SettingsNext ==
    \/ \E mod \in BOOLEAN, inGuild \in BOOLEAN, prefix_arg \in PrefixArgs :
          Prefix(mod, inGuild, prefix_arg)
    \/ \E purpose \in Purposes, name \in RoleNames \cup {NoName} :
          SetRole(purpose, name)
    \/ \E i \in 1..MaxCmds : RoleReply(i)
    \/ \E i \in 1..MaxCmds : RoleReplyFails(i)

SettingsSpec == Init /\ [][SettingsNext]_vars

\* --------------------------------------------------------- the sql hooks
\* register_hook
RegisterHookOp(hs, name, hook) ==
    IF name \notin HOOK_NAMES THEN [hooks |-> hs, result |-> "ValueError"]
    ELSE [hooks |-> [hs EXCEPT ![name] = Append(@, hook)], result |-> "ok"]

\* register_hook may be called by a hook that run_hooks is calling; a
\* finished run is forgotten once the registry changes
RegisterHook(name, hook) ==
    /\ name \in HOOK_NAMES => SumLen(hooks, HOOK_NAMES) < MaxHooks
    /\ LET r == RegisterHookOp(hooks, name, hook)
       IN /\ hooks' = r.hooks
          /\ lastReg' = [name |-> name, result |-> r.result]
    /\ run' = IF run.status = "running" THEN run ELSE Idle
    /\ UNCHANGED <<routerVars, lastGet, cogVars>>

\* run_hooks(name): the for loop starts; _hooks[name] raises KeyError for a
\* name that is no key
RunHooks(name) ==
    /\ run.status # "running"
    /\ run' = IF name \in DOMAIN hooks
              THEN [Idle EXCEPT !.status = "running", !.name = name]
              ELSE [Idle EXCEPT !.status = "KeyError", !.name = name]
    /\ lastReg' = NoReg
    /\ UNCHANGED hooks
    /\ UNCHANGED <<routerVars, lastGet, cogVars>>

\* one pass of the loop body: the hook is called, and an exception it raises
\* is caught and logged
HookCalledPropagates(r, hook, raises) ==
    [r EXCEPT !.idx = @ + 1,
              !.called = Append(@, [hook |-> hook, raised |-> raises]),
              !.status = IF raises THEN "raised" ELSE @]

HookCalled(r, hook, raises) ==
    [r EXCEPT !.idx = @ + 1,
              !.called = Append(@, [hook |-> hook, raised |-> raises]),
              !.logged = IF raises THEN Append(@, hook) ELSE @]

\* the list iterator yields the next hook of the list as it is now
RunNext(raises) ==
    /\ run.status = "running"
    /\ run.idx < Len(hooks[run.name])
    /\ run' = HookCalled(run, hooks[run.name][run.idx + 1], raises)
    /\ lastReg' = NoReg
    /\ UNCHANGED hooks
    /\ UNCHANGED <<routerVars, lastGet, cogVars>>

\* the list is exhausted: run_hooks returns
RunReturn ==
    /\ run.status = "running"
    /\ run.idx >= Len(hooks[run.name])
    /\ run' = [run EXCEPT !.status = "returned"]
    /\ lastReg' = NoReg
    /\ UNCHANGED hooks
    /\ UNCHANGED <<routerVars, lastGet, cogVars>>

HooksNext ==
    \/ \E name \in HookNameArgs, hook \in HookFns : RegisterHook(name, hook)
    \/ \E name \in HookNameArgs : RunHooks(name)
    \/ \E raises \in BOOLEAN : RunNext(raises)
    \/ RunReturn

HooksSpec == Init /\ [][HooksNext]_vars

\* ------------------------------------------------------- views of a state
\* the step just taken dequeued an event and process_content returned
Dispatched == trace # << >> /\ trace[1].kind = "process" /\ trace[1].ok

EvPath == trace[1].path

EvAttrs == trace[1].attributes

Registered(l) == Contains(paths[LPath(l)], l)

\* positions in trace of the handle calls made on listener l
Handles(l) == {i \in DOMAIN trace : trace[i].kind = "handle" /\ trace[i].lis = l}

\* status of the task with key K, "gone" once nothing references it
StatusOf(ts, K) ==
    LET S == {i \in DOMAIN ts : ts[i].ev = K.ev /\ ts[i].k = K.k}
    IN IF S = {} THEN "gone" ELSE ts[CHOOSE i \in S : TRUE].status

\* ------------------------------------------------------------------ C1
\* C1: the dispatch loop is back at waiting only when every handler of the
\* event it dispatched has finished, and every handler task that has not
\* finished belongs to the event dequeued last: no later event is dequeued,
\* and none of its handlers begins, while a handler of an earlier event runs.
C1_FanOutFinishedBeforeNext ==
    /\ pc = "waiting" => tasks = << >>
    /\ \A i \in DOMAIN tasks : tasks[i].ev = lastDeq

\* ------------------------------------------------------------------ C2
\* C2: once started, every event put on the queue is eventually dequeued,
\* and the events are dequeued one by one in the order they were sent.
C2_EveryEventDequeuedInOrder ==
    /\ \A n \in 1..MaxEvents : (sent >= n) ~> (lastDeq >= n)
    /\ [][lastDeq' # lastDeq => lastDeq' = lastDeq + 1]_vars

\* ------------------------------------------------------------------ C3
\* C3: when an event is dispatched, a registered listener whose check is
\* true is handed the event exactly when its path is the event's path or a
\* prefix of it.
C3_AncestorMatching ==
    Dispatched =>
        \A l \in Listeners :
            (Registered(l)
             /\ Check(l, LPath(l), Subject,
                      Process(trace[1].content, EvAttrs), EvAttrs))
            => (Handles(l) # {} <=> IsPrefix(LPath(l), EvPath))

\* an event was dispatched to a listener registered on a strict ancestor of
\* its path
C3_Witness ==
    /\ Dispatched
    /\ \E l \in Listeners :
          /\ Registered(l)
          /\ LPath(l) # EvPath
          /\ IsPrefix(LPath(l), EvPath)
          /\ Handles(l) # {}

\* ------------------------------------------------------------------ C4
\* C4: a handler that raises changes the state of no other handler task (the
\* others stay running until they return or raise themselves); when the loop
\* leaves the fan-out it goes back to waiting for the next event, and it has
\* logged an error for the event exactly when the fan-out surfaced one.
C4_Step ==
    /\ tasks' # tasks =>
          /\ \A i \in DOMAIN tasks :
                StatusOf(tasks', Key(tasks[i]))
                   \in {tasks[i].status, "done", "raised", "gone"}
          /\ pc' = pc =>
                Cardinality({i \in DOMAIN tasks :
                    StatusOf(tasks', Key(tasks[i])) # tasks[i].status}) <= 1
    /\ (pc = "dispatching" /\ pc' # "dispatching") =>
          /\ pc' = "waiting"
          /\ events' = << >>
          /\ outer = "exception" => errlog' = Append(errlog, lastDeq)
          /\ outer # "exception" => errlog' = errlog

C4_FailureIsolation == [][C4_Step]_vars

\* an error was logged for an earlier event, a handler of that event is
\* still running, and the next event has been dequeued and processed
C4_Witness ==
    /\ Dispatched
    /\ \E i \in DOMAIN errlog : errlog[i] < lastDeq
    /\ \E j \in DOMAIN tasks : tasks[j].ev < lastDeq /\ tasks[j].status = "running"

\* ------------------------------------------------------------------ C5
\* C5: the dispatch loop never exits because of an error raised while it
\* processes an event, and a failure of the content processor is logged.
C5_LoopNeverExits ==
    /\ pc # "dead"
    /\ (trace # << >> /\ ~trace[1].ok) => Contains(errlog, lastDeq)

\* ------------------------------------------------------------------ C6
\* C6: the processing of one event calls handle at most once on each
\* listener, whatever register and unregister calls came before.
C6_HandleAtMostOnce ==
    Dispatched => \A l \in Listeners : Cardinality(Handles(l)) <= 1

\* ------------------------------------------------------------------ C7
\* C7: process_content is called once per event, before any listener is
\* tested, and every check and handle of the event is passed its result.
C7_ContentProcessedOnce ==
    trace # << >> =>
        /\ trace[1].kind = "process"
        /\ \A i \in DOMAIN trace : i > 1 =>
              /\ trace[i].kind \in {"check", "handle"}
              /\ trace[i].content = Process(trace[1].content, EvAttrs)
              /\ trace[i].content # trace[1].content

\* one event was handed to two listeners
C7_Witness ==
    /\ Dispatched
    /\ Cardinality({i \in DOMAIN trace : trace[i].kind = "handle"}) >= 2

\* ------------------------------------------------------------------ C8
\* C8: handle is called only right after the listener's check returned true
\* for the event, and a listener registered on the event's path or an
\* ancestor is handed the event exactly when every item of its predicate is
\* among the event's attributes.
C8_AttributeFilter ==
    Dispatched =>
        /\ \A i \in DOMAIN trace : trace[i].kind = "handle" =>
              /\ trace[i - 1].kind = "check"
              /\ trace[i - 1].lis = trace[i].lis
              /\ trace[i - 1].ok
        /\ \A l \in Listeners :
              (Registered(l) /\ IsPrefix(LPath(l), EvPath)) =>
                 (Handles(l) # {} <=> \A item \in LPred(l) : item \in EvAttrs)

\* one event was tested against a listener that rejected it and against a
\* listener that accepted it although the event carries other attributes
C8_Witness ==
    /\ Dispatched
    /\ \E i \in DOMAIN trace : trace[i].kind = "check" /\ ~trace[i].ok
    /\ \E i \in DOMAIN trace :
          /\ trace[i].kind = "check"
          /\ trace[i].ok
          /\ EvAttrs \ LPred(trace[i].lis) # {}

\* ------------------------------------------------------------------ C9
\* C9: for a listener its bucket does not hold, register followed by
\* unregister succeeds and gives back the registry as it was; a listener
\* that is not registered is handed no event.
C9_RegisterUnregisterRoundTrip ==
    /\ \A l \in Listeners :
          ~Registered(l) =>
             UnregisterOp(RegisterOp(paths, l), l) =
                [reg |-> paths, result |-> "ok"]
    /\ lastCall.what = "undone" => ~Registered(lastCall.lis)
    /\ Dispatched => \A l \in Listeners : ~Registered(l) => Handles(l) = {}

\* a listener was registered into a bucket that held another listener and
\* unregistered again
C9_Witness ==
    /\ lastCall.what = "undone"
    /\ paths[LPath(lastCall.lis)] # << >>

\* ----------------------------------------------------------------- C10
\* C10: unregister of a listener its bucket does not hold raises ValueError
\* and changes neither the registry, nor the queue, nor the dispatch task.
C10_Absent ==
    \A l \in Listeners :
        ~Registered(l) =>
            UnregisterOp(paths, l) = [reg |-> paths, result |-> "ValueError"]

C10_Step ==
    lastCall'.what = "ValueError" =>
        UNCHANGED <<paths, queue, pc, events, outer, tasks, errlog, sent,
                    lastDeq>>

C10_UnregisterAbsentRaises == []C10_Absent /\ [][C10_Step]_vars

\* unregister raised while listeners were registered, an event was queued
\* and a fan-out was under way
C10_Witness ==
    /\ lastCall.what = "ValueError"
    /\ \E p \in AllPaths : paths[p] # << >>
    /\ queue # << >>
    /\ pc = "dispatching"

\* ----------------------------------------------------------------- C13
\* C13: while a handler of an event has not completed, no later event is
\* dequeued and no handler of a later event exists, whatever the other
\* handlers of the event do.
C13_HungHandlerStallsLoop ==
    \A i \in DOMAIN tasks :
        tasks[i].status = "running" =>
            /\ lastDeq <= tasks[i].ev
            /\ \A j \in DOMAIN tasks : tasks[j].ev <= tasks[i].ev

\* ----------------------------------------------------------------- C14
\* C14: every check made during the dispatch of an event is passed the
\* event's own path, and the handle that follows a true check is passed the
\* same path, subject, content and attributes as that check.
C14_CheckGetsEventPath ==
    Dispatched =>
        \A i \in DOMAIN trace :
            /\ trace[i].kind = "check" => trace[i].path = EvPath
            /\ trace[i].kind = "handle" =>
                  /\ trace[i].path = trace[i - 1].path
                  /\ trace[i].guild = trace[i - 1].guild
                  /\ trace[i].content = trace[i - 1].content
                  /\ trace[i].attributes = trace[i - 1].attributes

\* ----------------------------------------------------------------- C15
\* number of references to listener l the registry holds
Count(l) == Cardinality({i \in DOMAIN paths[LPath(l)] : paths[LPath(l)][i] = l})

\* listener l accepts the event dispatched in the step just taken
Accepts(l) ==
    Check(l, LPath(l), Subject, Process(trace[1].content, EvAttrs), EvAttrs)

HandleCalls == {i \in DOMAIN trace : trace[i].kind = "handle"}

\* C15: the handlers of an event are those of the registry as it is at the
\* dequeue, one per reference to an accepting listener on the event's path
\* or an ancestor, and they are all handed to the fan-out; a register or an
\* unregister changes neither the fan-out under way nor the queue.
C15_AtDequeue ==
    Dispatched =>
        /\ \A l \in Listeners :
              Cardinality(Handles(l)) =
                 IF IsPrefix(LPath(l), EvPath) /\ Accepts(l) THEN Count(l)
                 ELSE 0
        /\ Len(events) = Cardinality(HandleCalls)
        /\ Cardinality({i \in DOMAIN tasks : tasks[i].ev = lastDeq})
              = Cardinality(HandleCalls)

C15_Step ==
    paths' # paths => UNCHANGED <<queue, pc, events, outer, tasks, lastDeq>>

C15_HandlersFixedAtDequeue == []C15_AtDequeue /\ [][C15_Step]_vars

\* a listener that would accept the event under dispatch was registered
\* during the fan-out, and the fan-out still holds the one handler it had
C15_Witness ==
    /\ pc = "dispatching"
    /\ lastCall = [what |-> "fresh", lis |-> "l4"]
    /\ Len(events) = 1
    /\ outer = "pending"

\* ----------------------------------------------------------------- C16
\* the event's own path, then its ancestors from the nearest up to the root
ChainOf(p) == [k \in 1..(Len(p) + 1) |-> SubSeq(p, 1, Len(p) + 1 - k)]

RECURSIVE AcceptingIn(_)
AcceptingIn(ps) ==
    IF ps = << >> THEN << >>
    ELSE SelectSeq(paths[Head(ps)], Accepts) \o AcceptingIn(Tail(ps))

HandleSeq == SelectSeq(trace, IsHandle)

\* C16: the handlers of an event are collected own path first, then the
\* ancestors from the nearest to the root, in registration order within a
\* path; the list of collected handlers holds handlers of the event dequeued
\* last only, and is empty whenever the loop waits for the next event.
C16_CollectionOrder ==
    /\ Dispatched =>
          /\ [k \in DOMAIN HandleSeq |-> HandleSeq[k].lis]
                = AcceptingIn(ChainOf(EvPath))
          /\ events = [k \in DOMAIN HandleSeq |-> [ev |-> lastDeq, k |-> k]]
    /\ \A i \in DOMAIN events : events[i].ev = lastDeq
    /\ pc \in {"init", "waiting"} => events = << >>

\* a second event was handed to a listener on its own path and then to one
\* on an ancestor, while a handler of the first event was still running
C16_Witness ==
    /\ Dispatched
    /\ lastDeq >= 2
    /\ \E j \in DOMAIN tasks : tasks[j].ev < lastDeq
    /\ \E i, j \in DOMAIN HandleSeq :
          /\ i < j
          /\ LPath(HandleSeq[i].lis) = EvPath
          /\ LPath(HandleSeq[j].lis) # EvPath

\* ----------------------------------------------------------------- C11
\* what get returned is right for the registry: the earliest listener of
\* the bucket of exactly the asked path that carries every asked attribute,
\* and no listener when the bucket holds none
C11_Result ==
    lastGet.called =>
        LET b == paths[lastGet.path]
            r == lastGet.result
        IN IF \E i \in DOMAIN b : lastGet.attrs \subseteq LStatic(b[i])
           THEN /\ r \in Listeners
                /\ LPath(r) = lastGet.path
                /\ \E i \in DOMAIN b :
                      /\ b[i] = r
                      /\ lastGet.attrs \subseteq LStatic(r)
                      /\ \A j \in 1..(i - 1) :
                            ~(lastGet.attrs \subseteq LStatic(b[j]))
           ELSE r = NoListener

C11_Step == lastGet'.called => paths' = paths

\* C11: get returns the earliest-registered listener of the bucket of
\* exactly the given path whose attributes all equal the given ones, and no
\* listener when there is none; it raises for no path and leaves the
\* registry as it was.
C11_GetFirstMatchAtPath == []C11_Result /\ [][C11_Step]_vars

\* get skipped the earliest listener of the bucket, which lacks an asked
\* attribute, and returned a later one
C11_Witness ==
    /\ lastGet.called
    /\ lastGet.result \in Listeners
    /\ paths[lastGet.path][1] # lastGet.result

\* ----------------------------------------------------------------- C12
\* C12: a prefix command invoked by a user who is no moderator calls
\* neither set_prefix nor journal.send, whatever its argument, and leaves
\* the stored prefix as it was.
C12_Step ==
    (cmds' = cmds + 1 /\ lastCmd'.kind = "prefix" /\ ~lastCmd'.mod) =>
        /\ lastCmd'.calls = << >>
        /\ prefix' = prefix

C12_PrefixOnlyByModerator == [][C12_Step]_vars

\* ----------------------------------------------------------------- C17
\* no role serves two special purposes, and @everyone serves none
C17_Distinct ==
    /\ \A p, q \in Purposes :
          (p # q /\ roles[p] = roles[q]) => roles[p] = NoRole
    /\ \A p \in Purposes : roles[p] # Everyone

\* a role command that names a missing role, @everyone or a role that
\* serves a special purpose changes no stored role, and no journal event
\* will follow it
C17_Step ==
    (/\ cmds' = cmds + 1
     /\ lastCmd'.kind = "role"
     /\ lastCmd'.name # NoName
     /\ \/ lastCmd'.name \notin GuildRoles
        \/ lastCmd'.name = Everyone
        \/ \E p \in Purposes : roles[p] = lastCmd'.name)
    => /\ roles' = roles
       /\ pending' = pending
       /\ lastCmd'.calls = << >>

\* C17: after any sequence of setmember, setguest, setmute and setjail
\* commands no role is assigned to two special purposes and @everyone to
\* none; a command naming a missing role, @everyone or an assigned role
\* changes no stored role and sends no journal event.
C17_SpecialRolesDistinct == []C17_Distinct /\ [][C17_Step]_vars

\* a role that serves one purpose was refused for another one
C17_Witness ==
    /\ lastCmd.kind = "role"
    /\ lastCmd.result = "taken"
    /\ \E p \in Purposes : p # lastCmd.purpose /\ roles[p] = lastCmd.name

\* ----------------------------------------------------------------- C18
\* C18: a journal event of a settings command follows the write of the
\* setting by the same command and carries the value that was written, and
\* every write puts its value into the store.
C18_WriteBeforeJournal ==
    \A i \in DOMAIN lastCmd.calls :
        LET c == lastCmd.calls[i]
        IN /\ (c.op = "set" /\ c.setting = "prefix") => prefix = c.value
           /\ (c.op = "set" /\ c.setting # "prefix") =>
                 roles[c.setting] = c.value
           /\ (c.op = "send" /\ lastCmd.kind = "prefix") =>
                 /\ i > 1
                 /\ lastCmd.calls[i - 1] = StoreCall("prefix", c.value)
           /\ (c.op = "send" /\ lastCmd.kind # "prefix") =>
                 /\ lastCmd.kind = "reply"
                 /\ lastCmd.frame.purpose = c.setting
                 /\ lastCmd.frame.stored = c.value

\* a prefix with a trailing underscore was stored and its event sent
C18_Witness ==
    /\ lastCmd.kind = "prefix"
    /\ lastCmd.arg = <<"f", "_">>
    /\ Len(lastCmd.calls) = 2
    /\ prefix # lastCmd.arg

\* ----------------------------------------------------------------- C19
Raised(c) == c.raised

\* the hooks called so far are the first ones of the list in its order, each
\* called once; the raising ones are those logged; no exception leaves
\* run_hooks; register_hook raised exactly for a name outside HOOK_NAMES
C19_Run ==
    /\ run.status \in {"running", "returned"} =>
          /\ Len(run.called) <= Len(hooks[run.name])
          /\ \A k \in DOMAIN run.called :
                run.called[k].hook = hooks[run.name][k]
          /\ LET bad == SelectSeq(run.called, Raised)
             IN run.logged = [k \in DOMAIN bad |-> bad[k].hook]
    /\ run.status = "returned" => Len(run.called) = Len(hooks[run.name])
    /\ run.status # "raised"
    /\ lastReg # NoReg =>
          (lastReg.result = "ValueError" <=> lastReg.name \notin HOOK_NAMES)

C19_Step == lastReg'.result = "ValueError" => hooks' = hooks

\* C19: run_hooks of a known name calls every hook registered under the
\* name once, in registration order; a hook that raises is logged, stops no
\* later hook and raises nothing in the caller; register_hook with a name
\* outside HOOK_NAMES raises and leaves the registry as it was.
C19_HooksRunInOrder == []C19_Run /\ [][C19_Step]_vars

\* run_hooks returned after its first hook raised and a later one was called
C19_Witness ==
    /\ run.status = "returned"
    /\ Len(run.called) >= 2
    /\ run.called[1].raised
====
